---------------------------- MODULE Spec2Model ----------------------------
(***************************************************************************)
(* The section-generation workflow of src/app.py (a Streamlit script).     *)
(*                                                                         *)
(* Streamlit re-executes main() from the top on every widget interaction.  *)
(* One action of this model is one such interaction: the click of a widget *)
(* that the previous run displayed, followed by the complete script run it *)
(* triggers (and, where the script calls st.rerun(), by the immediate      *)
(* second run).  st.session_state persists between runs; it is the         *)
(* variables step, section_contents, doc and business_details.             *)
(*                                                                         *)
(* A script run is modelled by operators that thread a "run record" r      *)
(* through the functions of app.py in the order main() calls them.         *)
(***************************************************************************)
EXTENDS Integers, Sequences, FiniteSets

(***************************************************************************)
(* Bounds of the model.                                                    *)
(***************************************************************************)
\* The template is cut to its first N section names (app.py lists 9).
N == 3
\* Generation calls made over the lifetime of one session.
MaxCalls == 5

(***************************************************************************)
(* Constants of the program.                                               *)
(***************************************************************************)
SectionNames ==
    << "Executive Summary", "Company Description", "Market Analysis",
       "Organization & Management", "Service or Product Line",
       "Marketing & Sales", "Funding Request", "Financial Projections",
       "Appendix" >>

\* SECTIONS_TEMPLATE, 0-indexed as in Python.
SECTIONS_TEMPLATE == [i \in 0..(N - 1) |-> SectionNames[i + 1]]

\* What openai.ChatCompletion.create can produce: a text, or an exception.
Texts == {"textA", "textB"}
Failure == "<exception>"
Outcomes == Texts \cup {Failure}

\* The five text fields of the form, taken together: all empty, or filled in.
Details == {"", "details"}

\* Widget labels.
StartGenerating == "Start Generating"
PreviousSection == "Previous Section"
NextSection == "Next Section"
Complete == "Complete"
Download == "Download Business Plan"
StartOver == "Start Over"
SaveDetails == "Save Business Details"
NoWidget == "none"
Widgets ==
    {StartGenerating, PreviousSection, NextSection, Complete, Download,
     StartOver, SaveDetails}

\* No st.progress call was made in the run.
NoProgress == << >>

\* The page shows no section (line 94 was not reached in the run).
NoView == [section |-> "", content |-> ""]

\* business_plan.docx has not been written.
NoFile == [exists |-> FALSE, entries |-> << >>]

\* No generation call is in flight.
NoCall == [widget |-> NoWidget, section |-> ""]

VARIABLES
    step,              \* st.session_state.step
    section_contents,  \* st.session_state.section_contents
    doc,               \* st.session_state.doc: the entries after the title
    business_details,  \* st.session_state.business_name ... additional_info
    rendered,          \* the widgets the last run displayed
    progress_percent,  \* the value the last run handed to st.progress
    raised,            \* the last run ended in an uncaught exception
    clicked,           \* the widget whose click triggered the last run
    fired,             \* the button that returned True in the last run
    gen_log,           \* history: every generation call and its outcome
    went_back,         \* history: line 103 has been executed
    view,              \* the section name and text the last run displayed
    saved,             \* the file business_plan.docx
    max_step,          \* history: the highest value step has had
    in_flight          \* the generation call issued and not yet returned

vars ==
    << step, section_contents, doc, business_details, rendered,
       progress_percent, raised, clicked, fired, gen_log, went_back,
       view, saved, max_step, in_flight >>

Max(a, b) == IF a >= b THEN a ELSE b

(***************************************************************************)
(* The functions of app.py.                                                *)
(***************************************************************************)

\* st.button / st.form_submit_button / st.download_button: display the widget.
Render(r, label) == [r EXCEPT !.rendered = @ \cup {label}]

\* A variant of add_section_to_document that drops the entry.
add_section_dropped(d, section, content) == d

\* A variant of add_section_to_document that puts the entry first.
add_section_in_front(d, section, content) ==
    << [heading |-> section, body |-> content] >> \o d

\* Lines 136-138: one heading and one paragraph are appended.
add_section_to_document(d, section, content) ==
    Append(d, [heading |-> section, body |-> content])

\* A variant of generate_section_content that adds the section to the
\* document before the call is known to have succeeded.
generate_appending_on_failure(r, section, outcome) ==
    LET content == IF outcome = Failure THEN "" ELSE outcome
    IN  [content |-> content,
         r |-> [r EXCEPT
                   !.gen_log =
                       Append(@, [section |-> section, outcome |-> outcome]),
                   !.doc = Append(@, [heading |-> section, body |-> content])]]

\* Lines 114-134.  The result is the returned content and the run record.
generate_section_content(r, section, outcome) ==
    LET logged == [r EXCEPT !.gen_log =
                       Append(@, [section |-> section, outcome |-> outcome])]
    IN  IF outcome = Failure
        THEN [content |-> "", r |-> logged]
        ELSE [content |-> outcome,
              r |-> [logged EXCEPT
                        !.doc = add_section_to_document(@, section, outcome)]]

\* A variant of store_content that counts the slots from 1.
store_content_one_based(contents, i, content) ==
    IF i + 1 \in DOMAIN contents
    THEN [contents EXCEPT ![i + 1] = content]
    ELSE contents

\* A variant of store_content that also fills the slot of the next section.
store_content_next_too(contents, i, content) ==
    IF i + 1 \in DOMAIN contents
    THEN [contents EXCEPT ![i] = content, ![i + 1] = content]
    ELSE [contents EXCEPT ![i] = content]

\* Lines 81 and 108: the assignment to section_contents[i].
store_content(contents, i, content) == [contents EXCEPT ![i] = content]

\* Lines 156-158: max(0, step) / (N - 1), kept as numerator and denominator.
calculate_progress(s) == << Max(0, s), N - 1 >>

\* Line 89: st.progress accepts only a float in [0.0, 1.0] and raises otherwise.
ProgressAccepted(p) == 0 <= p[1] /\ p[1] <= p[2]

\* A variant of previous_section that also clears the slot it leaves.
previous_section_clearing(r) ==
    [r EXCEPT !.step = @ - 1, !.fired = PreviousSection, !.went_back = TRUE,
              !.section_contents[r.step] = ""]

\* Line 103.
previous_section(r) ==
    [r EXCEPT !.step = @ - 1, !.fired = PreviousSection, !.went_back = TRUE]

\* A variant of next_available that is off by one: "Complete" is offered
\* on the section before the last.
next_available_off_by_one(s) == s < N - 2

\* Line 105.
next_available(s) == s < N - 1

\* A variant of next_step that skips a section where there is one to skip.
next_step_skipping(s) == IF s + 2 <= N - 1 THEN s + 2 ELSE s + 1

\* Line 107.
next_step(s) == s + 1

\* Line 112.
complete_workflow(r) == [r EXCEPT !.step = N, !.fired = Complete]

\* Lines 98-112.
navigation_buttons(r, click, outcome) ==
    LET col1 ==
            IF r.step > 0
            THEN LET a == Render(r, PreviousSection)
                 IN  IF click = PreviousSection THEN previous_section(a) ELSE a
            ELSE r
    IN  IF next_available(col1.step)
        THEN LET b == Render(col1, NextSection)
             IN  IF click = NextSection
                 THEN LET c == [b EXCEPT !.step = next_step(@),
                                         !.fired = NextSection]
                          g == generate_section_content(
                                   c, SECTIONS_TEMPLATE[c.step], outcome)
                      IN  [g.r EXCEPT
                              !.section_contents =
                                  store_content(@, c.step, g.content),
                              !.rerun = TRUE]
                 ELSE b
        ELSE LET b == Render(col1, Complete)
             IN  IF click = Complete THEN complete_workflow(b) ELSE b

\* Lines 92-94: the expander's title and the text area's value.
displayed_section(r) ==
    [section |-> SECTIONS_TEMPLATE[r.step],
     content |-> r.section_contents[r.step]]

\* Lines 86-96.
section_content_ui(r, click, outcome) ==
    IF r.step >= 0
    THEN LET p == calculate_progress(r.step)
             shown == [r EXCEPT !.progress_percent = p]
         IN  IF ~ProgressAccepted(p)
             THEN [shown EXCEPT !.raised = TRUE]
             ELSE IF r.step \notin DOMAIN SECTIONS_TEMPLATE
             THEN [shown EXCEPT !.raised = TRUE]
             ELSE navigation_buttons(
                      [shown EXCEPT !.view = displayed_section(r)],
                      click, outcome)
    ELSE r

\* Lines 77-84.
handle_section_generation(r, click, outcome) ==
    IF r.step = -1
    THEN LET a == Render(r, StartGenerating)
         IN  IF click = StartGenerating
             THEN LET c == [a EXCEPT !.step = 0, !.fired = StartGenerating]
                      g == generate_section_content(
                               c, SECTIONS_TEMPLATE[0], outcome)
                  IN  [g.r EXCEPT
                          !.section_contents = store_content(@, 0, g.content),
                          !.rerun = TRUE]
             ELSE a
    ELSE section_content_ui(r, click, outcome)

\* A variant of workflow_complete that is off by one.
workflow_complete_early(s) == s >= N - 1

\* Line 141.
workflow_complete(s) == s >= N

\* Line 146.
save_document(r) == [r EXCEPT !.saved = [exists |-> TRUE, entries |-> r.doc]]

\* Lines 140-154.
completion_ui(r, click) ==
    IF workflow_complete(r.step)
    THEN LET a == Render(Render(save_document(r), Download), StartOver)
         IN  IF click = StartOver
             THEN [a EXCEPT !.step = -1, !.fired = StartOver]
             ELSE a
    ELSE r

\* Lines 65-75: the form; its fields change only when the form is submitted.
input_ui(r, click, details) ==
    LET a == Render(r, SaveDetails)
    IN  IF click = SaveDetails
        THEN [a EXCEPT !.business_details = details, !.fired = SaveDetails]
        ELSE a

\* Lines 18-42, with the API key and the model given: one run of the script.
\* An uncaught exception, or st.rerun(), ends the run where it happens.
main(r, click, outcome, details) ==
    LET a == input_ui(r, click, details)
        b == handle_section_generation(a, click, outcome)
    IN  IF b.raised \/ b.rerun THEN b ELSE completion_ui(b, click)

\* The run record a run starts from: session state, and an empty page.
RunStart(click) ==
    [clicked |-> click, step |-> step, section_contents |-> section_contents, doc |-> doc,
     business_details |-> business_details, gen_log |-> gen_log,
     went_back |-> went_back, saved |-> saved, view |-> NoView,
     rendered |-> {}, progress_percent |-> NoProgress,
     raised |-> FALSE, fired |-> NoWidget, rerun |-> FALSE]

\* The run a click triggers and, after st.rerun(), the run that follows it,
\* in which no widget reports a click.
ScriptRun(click, outcome, details) ==
    LET first == main(RunStart(click), click, outcome, details)
    IN  IF first.rerun
        THEN main([first EXCEPT !.rendered = {},
                                !.view = NoView,
                                !.progress_percent = NoProgress,
                                !.rerun = FALSE],
                  NoWidget, outcome, details)
        ELSE first

\* The session state and the page after the interaction; no call is
\* in flight once the run has ended.
Commit(r) ==
    /\ step' = r.step
    /\ section_contents' = r.section_contents
    /\ doc' = r.doc
    /\ business_details' = r.business_details
    /\ rendered' = r.rendered
    /\ progress_percent' = r.progress_percent
    /\ raised' = r.raised
    /\ clicked' = r.clicked
    /\ fired' = r.fired
    /\ gen_log' = r.gen_log
    /\ went_back' = r.went_back
    /\ view' = r.view
    /\ saved' = r.saved
    /\ max_step' = Max(max_step, r.step)
    /\ in_flight' = NoCall

(***************************************************************************)
(* The state after the first run: lines 51-63, then the page of step -1.   *)
(***************************************************************************)
Init ==
    /\ step = -1
    /\ section_contents = [i \in 0..(N - 1) |-> ""]
    /\ doc = << >>
    /\ business_details = ""
    /\ rendered = {SaveDetails, StartGenerating}
    /\ progress_percent = NoProgress
    /\ raised = FALSE
    /\ clicked = NoWidget
    /\ fired = NoWidget
    /\ gen_log = << >>
    /\ went_back = FALSE
    /\ view = NoView
    /\ saved = NoFile
    /\ max_step = -1
    /\ in_flight = NoCall

(***************************************************************************)
(* The interactions: the user clicks a widget that is on the page.         *)
(***************************************************************************)
ClickStartGenerating ==
    /\ StartGenerating \in rendered
    /\ Len(gen_log) < MaxCalls
    /\ \E outcome \in Outcomes :
           Commit(ScriptRun(StartGenerating, outcome, business_details))

ClickNext ==
    /\ NextSection \in rendered
    /\ Len(gen_log) < MaxCalls
    /\ \E outcome \in Outcomes :
           Commit(ScriptRun(NextSection, outcome, business_details))

ClickPrevious ==
    /\ PreviousSection \in rendered
    /\ Commit(ScriptRun(PreviousSection, Failure, business_details))

ClickComplete ==
    /\ Complete \in rendered
    /\ Commit(ScriptRun(Complete, Failure, business_details))

ClickDownload ==
    /\ Download \in rendered
    /\ Commit(ScriptRun(Download, Failure, business_details))

ClickStartOver ==
    /\ StartOver \in rendered
    /\ Commit(ScriptRun(StartOver, Failure, business_details))

SubmitForm ==
    /\ SaveDetails \in rendered
    /\ \E details \in Details :
           Commit(ScriptRun(SaveDetails, Failure, details))

Next ==
    \/ ClickStartGenerating
    \/ ClickNext
    \/ ClickPrevious
    \/ ClickComplete
    \/ ClickDownload
    \/ ClickStartOver
    \/ SubmitForm

Spec == Init /\ [][Next]_vars

TypeOK ==
    /\ step \in -1..N
    /\ section_contents \in [0..(N - 1) -> Texts \cup {""}]
    /\ \A k \in 1..Len(doc) :
           doc[k].heading \in {SECTIONS_TEMPLATE[i] : i \in 0..(N - 1)}
    /\ business_details \in Details
    /\ rendered \subseteq Widgets
    /\ raised \in BOOLEAN
    /\ clicked \in Widgets \cup {NoWidget}
    /\ fired \in {clicked, NoWidget}
    /\ Len(gen_log) <= MaxCalls
    /\ went_back \in BOOLEAN
    /\ saved.exists \in BOOLEAN
    /\ max_step \in -1..N

(***************************************************************************)
(* Properties of the workflow.                                             *)
(***************************************************************************)
EmptySlots == [i \in 0..(N - 1) |-> ""]

\* The generation calls that failed, and those that returned a text.
Failed(log) == SelectSeq(log, LAMBDA e : e.outcome = Failure)
Succeeded(log) == SelectSeq(log, LAMBDA e : e.outcome # Failure)

\* Some section was generated more than once.
Regenerated(log) ==
    \E j, k \in 1..Len(log) : j < k /\ log[j].section = log[k].section

\* The last generation call failed.
LastCallFailed(log) == Len(log) > 0 /\ log[Len(log)].outcome = Failure

\* C1: step always stays in {-1, ..., N}; every "Start Generating" or
\* "Next Section" that is acted on increases step by exactly 1 and every
\* "Previous Section" that is acted on decreases it by exactly 1.
C1_StepMovesByOne ==
    /\ step \in -1..N
    /\ [][/\ step' \in -1..N
          /\ fired' \in {StartGenerating, NextSection} => step' = step + 1
          /\ fired' = PreviousSection => step' = step - 1]_vars

\* C1 witness: start, next and previous have all acted, the last one a next.
C1_Witness == fired = NextSection /\ went_back /\ step = N - 1

\* C2 as stated: every slot above step is empty in every reachable state.
C2_EmptyAboveStep ==
    \A i \in 0..(N - 1) : i > step => section_contents[i] = ""

\* C2 as amended: as long as "Previous Section" has not been acted on,
\* every slot above step is empty.
C2_EmptyAboveStepUntilPrevious ==
    ~went_back => \A i \in 0..(N - 1) : i > step => section_contents[i] = ""

\* C2 witness: two sections generated going forward only, one still ahead.
C2_Witness ==
    /\ ~went_back
    /\ step = 1
    /\ step < N - 1
    /\ section_contents[0] # ""
    /\ section_contents[1] # ""

\* C3: "Start Over" clicked in DONE leaves the freshly initialised state:
\* step = -1, every slot empty, no section entry in the document.
C3_ResetRestoresInitialState ==
    [][(step = N /\ clicked' = StartOver) =>
           /\ step' = -1
           /\ section_contents' = EmptySlots
           /\ doc' = << >>]_vars

\* C4: a completed run in which every generation succeeded and some section
\* was regenerated ends with exactly N entries, one per section in template
\* order, each carrying the text of its slot in section_contents.
C4_OneEntryPerSection ==
    (step = N /\ Failed(gen_log) = << >> /\ Regenerated(gen_log)) =>
        /\ Len(doc) = N
        /\ \A i \in 0..(N - 1) :
               doc[i + 1] = [heading |-> SECTIONS_TEMPLATE[i],
                             body |-> section_contents[i]]

\* C5 as stated: N entries after N successful generations, and after any
\* failed generation fewer than step + 1 entries.
C5_EntriesBelowStep ==
    /\ Len(Succeeded(gen_log)) = N => Len(doc) = N
    /\ Failed(gen_log) # << >> => Len(doc) < step + 1

\* C5 as amended: the number of entries is the number of successful
\* generations (N after N of them); after a failed generation it is less
\* than the number of generation calls made, and less than step + 1 as long
\* as "Previous Section" has not been acted on.
C5_EntriesAreSuccessfulCalls ==
    /\ Len(doc) = Len(Succeeded(gen_log))
    /\ Failed(gen_log) # << >> => Len(doc) < Len(gen_log)
    /\ (Failed(gen_log) # << >> /\ ~went_back) => Len(doc) < step + 1

\* C5 witness: a forward-only run with a failed and a successful generation.
C5_Witness ==
    /\ Failed(gen_log) # << >>
    /\ Len(doc) > 0
    /\ ~went_back
    /\ step = N - 1

\* C6: when the generation made by start or next fails, step still advances,
\* the slot of the new step is empty, the document is unchanged, the run does
\* not end in an exception, and the button that moves on ("Next Section", or
\* "Complete" on the last section) is offered.
C6_FailureDoesNotBlock ==
    [][(fired' \in {StartGenerating, NextSection}
            /\ Len(gen_log') = Len(gen_log) + 1
            /\ LastCallFailed(gen_log')) =>
           /\ step' = step + 1
           /\ section_contents'[step'] = ""
           /\ doc' = doc
           /\ ~raised'
           /\ IF step' < N - 1
              THEN NextSection \in rendered'
              ELSE Complete \in rendered']_vars

\* C6 witness: the generation of the last section failed after an earlier
\* one had succeeded, and "Complete" is offered.
C6_Witness ==
    /\ fired = NextSection
    /\ LastCallFailed(gen_log)
    /\ step = N - 1
    /\ doc # << >>
    /\ Complete \in rendered

C8_NoIndexSkipped ==
    [][/\ fired' = NextSection => step < N - 1
       /\ step' # step => (step' = step + 1 \/ step' = step - 1)
       /\ (step' = N /\ step # N) =>
              /\ fired' = Complete
              /\ step = N - 1
              /\ section_contents' = section_contents
              /\ doc' = doc
              /\ gen_log' = gen_log]_vars

\* C8 witness: DONE entered by "Complete".
C8_Witness == step = N /\ fired = Complete /\ Len(gen_log) >= N

\* C9: "Start Over" issued in DONE is accepted and leads to step -1.  The
\* button is only ever offered in DONE, so after its click step must be -1.
C9_StartOverLeavesDone == clicked = StartOver => (fired = StartOver /\ step = -1)

\* C10: whenever progress is computed, max(0, step) <= N - 1, that is, the
\* value handed to st.progress lies in [0, 1].
C10_ProgressWithinUnit ==
    progress_percent # NoProgress =>
        (0 <= progress_percent[1] /\ progress_percent[1] <= progress_percent[2])

\* C11: the document is saved and offered for download only in DONE: in no
\* state with step < N does the file exist or is the download button shown,
\* and the file holds the document's entries.
C11_SavedOnlyWhenDone ==
    /\ (saved.exists \/ Download \in rendered) => step = N
    /\ saved.exists => saved.entries = doc

\* C11 witness: the finished document has been saved and is offered.
C11_Witness ==
    /\ saved.exists
    /\ Download \in rendered
    /\ Len(saved.entries) >= N

(***************************************************************************)
(* The same workflow with the generation call as a step of its own: the    *)
(* run of a "Start Generating" or "Next Section" click up to the call of   *)
(* line 122, and the rest of that run once the call has returned or        *)
(* raised.  The script thread is busy in between, so no other click is     *)
(* served while a call is in flight.                                       *)
(***************************************************************************)

\* Lines 80 and 107: step is assigned before generate_section_content is
\* called (line 81, line 108).
step_before_call(s, widget) ==
    IF widget = StartGenerating THEN 0 ELSE next_step(s)

\* Lines 78-81 and 105-108, up to the call of line 122.  The page still
\* shows what the run before displayed.
IssueGeneration(widget) ==
    /\ in_flight = NoCall
    /\ widget \in rendered
    /\ Len(gen_log) < MaxCalls
    /\ ScriptRun(widget, Failure, business_details).fired = widget
    /\ step' = step_before_call(step, widget)
    /\ in_flight' = [widget |-> widget, section |-> SECTIONS_TEMPLATE[step']]
    /\ clicked' = widget
    /\ fired' = widget
    /\ max_step' = Max(max_step, step')
    /\ UNCHANGED << section_contents, doc, business_details, rendered,
                    progress_percent, raised, gen_log, went_back, view,
                    saved >>

IssueStart == IssueGeneration(StartGenerating)

IssueNext == IssueGeneration(NextSection)

\* Lines 122-134, then the assignment of line 81 or 108, st.rerun() and the
\* run that follows.
ResolveGeneration ==
    /\ in_flight # NoCall
    /\ \E outcome \in Outcomes :
           LET r == [RunStart(in_flight.widget) EXCEPT
                        !.fired = in_flight.widget]
               g == generate_section_content(r, in_flight.section, outcome)
               stored == [g.r EXCEPT
                             !.section_contents =
                                 store_content(@, step, g.content)]
           IN  Commit(main(stored, NoWidget, outcome, business_details))

PreviousWhenIdle == in_flight = NoCall /\ ClickPrevious

CompleteWhenIdle == in_flight = NoCall /\ ClickComplete

DownloadWhenIdle == in_flight = NoCall /\ ClickDownload

StartOverWhenIdle == in_flight = NoCall /\ ClickStartOver

SubmitFormWhenIdle == in_flight = NoCall /\ SubmitForm

NextInFlight ==
    \/ IssueStart
    \/ IssueNext
    \/ ResolveGeneration
    \/ PreviousWhenIdle
    \/ CompleteWhenIdle
    \/ DownloadWhenIdle
    \/ StartOverWhenIdle
    \/ SubmitFormWhenIdle

SpecInFlight == Init /\ [][NextInFlight]_vars

\* C12: issuing a generation call leaves the visible state as it was: while
\* the call is in flight step has not advanced and no slot has been written.
C12_NoChangeWhileInFlight ==
    [][in_flight' # NoCall =>
           (step' = step /\ section_contents' = section_contents)]_vars

\* C13: "Start Generating" clicked at step -1 while no business detail has
\* been entered is a no-op: step stays -1, no generation call is made, no
\* slot is written and nothing is added to the document.
C13_StartWithoutProfileIsNoOp ==
    [][(step = -1 /\ business_details = "" /\ clicked' = StartGenerating) =>
           /\ step' = -1
           /\ gen_log' = gen_log
           /\ section_contents' = section_contents
           /\ doc' = doc]_vars

\* The states in which a command is not valid.
Invalid(widget, s) ==
    \/ widget = StartGenerating /\ s # -1
    \/ widget = PreviousSection /\ s <= 0
    \/ widget = NextSection /\ s \notin 0..(N - 2)
    \/ widget = Complete /\ s # N - 1

\* C14: a command issued in a state where it is not valid is a no-op: step,
\* section_contents and the document are unchanged, no generation call is
\* made, and the run does not end in an error.
C14_InvalidCommandIsNoOp ==
    [][Invalid(clicked', step) =>
           /\ step' = step
           /\ section_contents' = section_contents
           /\ doc' = doc
           /\ gen_log' = gen_log
           /\ ~raised']_vars

\* C15: a slot holds text only if step has been at or past its index at
\* some earlier or the current point of the session.
C15_FilledOnlyIfReached ==
    /\ step <= max_step
    /\ \A i \in 0..(N - 1) : section_contents[i] # "" => i <= max_step

\* C15 witness: the workflow has gone back, and a slot above step holds text
\* while a later slot, never reached, is empty.
C15_Witness ==
    /\ step = 0
    /\ max_step = 1
    /\ max_step < N - 1
    /\ section_contents[1] # ""

\* C16: the document is append-only and mirrors the generation order: a
\* step in which a generation call succeeds appends exactly the entry
\* (section name, text) of that call at the end, and every other step, a
\* failed call included, leaves the document as it was.
C16_AppendOnlyInGenerationOrder ==
    [][IF /\ Len(gen_log') = Len(gen_log) + 1
          /\ gen_log'[Len(gen_log')].outcome # Failure
       THEN doc' = Append(doc, [heading |-> gen_log'[Len(gen_log')].section,
                                body |-> gen_log'[Len(gen_log')].outcome])
       ELSE doc' = doc]_vars

\* C16 witness: several entries, after a failed call and a regeneration.
C16_Witness ==
    /\ Len(doc) >= 2
    /\ Failed(gen_log) # << >>
    /\ Regenerated(gen_log)
    /\ fired = PreviousSection

\* C17: after every command that was acted on and leaves 0 <= step < N, the
\* page shows the name and the text of the section at index step.
C17_ViewShowsCurrentSection ==
    (fired \in {StartGenerating, NextSection, PreviousSection}
         /\ 0 <= step /\ step < N) =>
        view = [section |-> SECTIONS_TEMPLATE[step],
                content |-> section_contents[step]]

\* The generation calls made for a section, by their position in the log.
Attempts(log, name) == {k \in 1..Len(log) : log[k].section = name}

\* The position of the first generation call made for a section.
FirstAttempt(log, name) ==
    CHOOSE k \in Attempts(log, name) : \A j \in Attempts(log, name) : k <= j

\* C18: whenever step is N, a generation call has been attempted for every
\* section of the template, and the first attempts were made in template
\* order.  (step never returns to -1, so the log covers the whole session.)
C18_EverySectionAttemptedInOrder ==
    step = N =>
        /\ \A i \in 0..(N - 1) : Attempts(gen_log, SECTIONS_TEMPLATE[i]) # {}
        /\ \A i \in 0..(N - 2) :
               FirstAttempt(gen_log, SECTIONS_TEMPLATE[i])
                   < FirstAttempt(gen_log, SECTIONS_TEMPLATE[i + 1])

\* C18 witness: DONE reached after a failed call and a regeneration.
C18_Witness ==
    /\ step = N
    /\ Failed(gen_log) # << >>
    /\ Regenerated(gen_log)

=============================================================================
